---------------------------- MODULE Spec2Model ----------------------------
(***************************************************************************)
(* State-machine model of selfdrive/ui/ui.cc: the scene aggregator         *)
(* (update_state), the status classifier (update_status), the timer        *)
(* handler QUIState::update and the wakefulness controller of Device       *)
(* (updateWakefulness, ScreenAwake, setAwake).                             *)
(*                                                                         *)
(* Two handlers exist: QUIState::update (the timer slot) and               *)
(* Device::update(const UIState &s) (a slot fed by the uiUpdate signal).   *)
(* SpecUI, SpecPanda, SpecTopics and SpecIgnition run the first over       *)
(* SubMaster samples; SpecDevice runs the second over every UIState the    *)
(* signal can carry, SpecBrightness with its detached set_brightness       *)
(* threads running late; SpecPath applies update_model to modelV2 samples. *)
(***************************************************************************)
EXTENDS Integers, Sequences, FiniteSets, Bags, TLC

(* ------------------------------ bounds --------------------------------- *)
\* UI_FREQ is declared in ui.h; ui.cc uses it only symbolically
\* (5*UI_FREQ, 30*UI_FREQ, 60*UI_FREQ).  The model runs at a small rate.
UI_FREQ ==
  1
\* longest pandaStates list a sample carries
MaxPandas ==
  1
\* largest value of CarState.cruiseState.cruiseSwState
MaxCruiseSw ==
  1
\* timer ticks explored (beyond the staleness limit, where that matters)
MaxFrame ==
  4

\* TRAJECTORY_SIZE, MIN_DRAW_DISTANCE and MAX_DRAW_DISTANCE (metres) are
\* declared in ui.h; ui.cc uses them only by name.  The model takes short
\* lines and a draw range in which every case of the lead rule occurs.
TRAJECTORY_SIZE ==
  3
MIN_DRAW_DISTANCE ==
  10
MAX_DRAW_DISTANCE ==
  100

(* ----------------------------- constants ------------------------------- *)
\* #define BACKLIGHT_OFFROAD 50
BACKLIGHT_OFFROAD ==
  50

(* ------------------------------ domains -------------------------------- *)
Max(a, b) ==
  IF a >= b THEN a ELSE b

UIStatus ==
  {"STATUS_DISENGAGED", "STATUS_ENGAGED", "STATUS_WARNING", "STATUS_ALERT"}

AlertStatus ==
  {"NORMAL", "USER_PROMPT", "CRITICAL"}

AlertSize ==
  {"NONE", "SMALL"}

PandaType ==
  {"UNKNOWN", "DOS"}

\* a controlsState sample, as far as ui.cc reads it
ControlsStates ==
  [alertStatus : AlertStatus, enabled : BOOLEAN, alertSize : AlertSize]

\* the sample held before controlsState was ever received (capnp defaults)
NoControlsState ==
  [alertStatus |-> "NORMAL", enabled |-> FALSE, alertSize |-> "NONE"]

PandaStates ==
  [pandaType : PandaType, ignitionLine : BOOLEAN, ignitionCan : BOOLEAN]

PandaLists ==
  UNION {[1..n -> PandaStates] : n \in 0..MaxPandas}

\* a carState sample: cruise switch state and speed (m/s, whole numbers)
CarStates ==
  [cruiseSwState : 0..MaxCruiseSw, vEgo : 0..1]

VARIABLES
  sm,                  \* SubMaster: frame, rcv_frame("pandaStates"), updated topics,
                       \* and the latest samples ui.cc reads
  scene,               \* UIState.scene
  status,              \* UIState.status
  ui_awake,            \* UIState.awake
  status_started_prev, \* static started_prev of update_status
  started_prev,        \* QUIState::started_prev
  awake,               \* Device::awake
  awake_timeout,       \* Device::awake_timeout
  old_key,             \* static old_key of Device::ScreenAwake
  last_brightness,     \* Device::last_brightness
  brightness_calls,    \* Hardware::set_brightness values dispatched by the last run
  display_power,       \* last value given to Hardware::set_display_power
  emitted,             \* signals and hardware calls of the last handler run
  wake,                \* locals of the last updateWakefulness run
  tasks,               \* detached Hardware::set_brightness threads not yet run
  hw_brightness,       \* << the brightness the display hardware holds >>, << >>
                       \* before the first Hardware::set_brightness
  polled,              \* the samples the last poll delivered
  geom                 \* update_model: its inputs and what it left in the scene

vars ==
  <<sm, scene, status, ui_awake, status_started_prev, started_prev, awake,
    awake_timeout, old_key, last_brightness, brightness_calls, display_power,
    emitted, wake, tasks, hw_brightness, polled, geom>>


(* ------------------------- initial state ------------------------------- *)
\* UIState is zero-initialised (ui_state = {0}); SubMaster starts at frame 0
\* with nothing received; the Device starts asleep with its countdown at 0 and
\* nothing commanded to the display yet.
InitScene ==
  [started |-> FALSE, ignition |-> FALSE, pandaType |-> "UNKNOWN",
   world_objects_visible |-> FALSE, IsOpenpilotViewEnabled |-> FALSE,
   controls_state |-> NoControlsState,
   car_state |-> [cruiseSwState |-> 0, vEgo |-> 0],
   scr_awake |-> 0, scr_autoScreenOff |-> 0, scr_brightness_off |-> 0,
   scr_nTime |-> 0, scr_map_is_running |-> FALSE,
   gpsLocationExternal |-> 0, deviceState |-> FALSE,
   liveNaviData |-> [mapEnable |-> FALSE], liveParameters |-> 0,
   lateralPlan |-> 0]

InitSm ==
  [frame |-> 0, rcv_frame |-> 0, updated |-> {}, started |-> FALSE,
   controlsState |-> NoControlsState]

\* what one poll of the sockets delivers: the topics with a new sample, and
\* the samples
NoInput ==
  [updated |-> {}, deviceState |-> FALSE, controlsState |-> NoControlsState,
   pandaStates |-> << >>, carState |-> [cruiseSwState |-> 0, vEgo |-> 0],
   gpsLocationExternal |-> 0, liveNaviData |-> [mapEnable |-> FALSE],
   liveParameters |-> 0, lateralPlan |-> 0]

NoWake ==
  [should_wake |-> FALSE, primary |-> FALSE, rearmed |-> FALSE, key_wake |-> FALSE]

\* before any modelV2 sample: nothing computed
NoGeom ==
  [done |-> FALSE]

InitUI ==
  /\ sm = InitSm
  /\ scene = InitScene
  /\ status = "STATUS_DISENGAGED"
  /\ ui_awake = FALSE
  /\ status_started_prev = FALSE
  /\ started_prev = TRUE
  /\ awake = FALSE
  /\ awake_timeout = 0
  /\ old_key = 0
  /\ last_brightness = 0
  /\ brightness_calls = << >>
  /\ display_power = "unset"
  /\ emitted = << >>
  /\ wake = NoWake
  /\ tasks = EmptyBag
  /\ hw_brightness = << >>
  /\ polled = NoInput

Init ==
  /\ InitUI
  /\ geom = NoGeom

(* --------------------------- update_model ------------------------------ *)
\* Distances are whole centimetres, so that 0.35 * lead_d is exact.
\* A line is [x, left, right]: the forward samples line.getX() and, for each
\* sample index, whether calib_frame_to_full_frame accepts the point of the
\* left (y - y_off) and of the right (y + y_off) boundary: the projection
\* and the clip test are float arithmetic on the calibration, so their
\* outcome is an input.
Clamp(v, lo, hi) ==
  IF v < lo THEN lo ELSE IF hi < v THEN hi ELSE v

Min(a, b) ==
  IF a <= b THEN a ELSE b

\* the for loop of get_path_length_idx from index i on (C index i is
\* line_x[i + 1])
RECURSIVE path_scan(_, _, _, _)
path_scan(line_x, path_height, i, max_idx) ==
  IF i < TRAJECTORY_SIZE /\ line_x[i + 1] < path_height
  THEN path_scan(line_x, path_height, i + 1, i)
  ELSE max_idx

\* get_path_length_idx that takes the last sample below the limit wherever
\* it is
get_path_length_idx_lastBelow(line_x, path_height) ==
  LET below == {i \in 0..(TRAJECTORY_SIZE - 1) : line_x[i + 1] < path_height}
  IN IF below = {} THEN 0 ELSE CHOOSE i \in below : \A j \in below : j <= i

get_path_length_idx(line_x, path_height) ==
  path_scan(line_x, path_height, 0, 0)

\* for (int i = 0; i <= max_idx; i++) v += calib_frame_to_full_frame(...)
RECURSIVE line_fwd(_, _, _, _)
line_fwd(line, max_idx, i, v) ==
  IF i <= max_idx
  THEN line_fwd(line, max_idx, i + 1,
                IF line.left[i + 1] THEN Append(v, [side |-> "left", i |-> i]) ELSE v)
  ELSE v

\* for (int i = max_idx; i >= 0; i--) v += calib_frame_to_full_frame(...)
RECURSIVE line_bwd(_, _, _)
line_bwd(line, i, v) ==
  IF i >= 0
  THEN line_bwd(line, i - 1,
                IF line.right[i + 1] THEN Append(v, [side |-> "right", i |-> i]) ELSE v)
  ELSE v

\* update_line_data that ends the ribbon at the first point the clip test
\* refuses
update_line_data_stopsAtFail(line, max_idx) ==
  LET all == line_bwd([line EXCEPT !.right = [k \in 1..TRAJECTORY_SIZE |-> TRUE]], max_idx,
                      line_fwd([line EXCEPT !.left = [k \in 1..TRAJECTORY_SIZE |-> TRUE]],
                               max_idx, 0, << >>))
      ok(k) == IF all[k].side = "left" THEN line.left[all[k].i + 1]
               ELSE line.right[all[k].i + 1]
      n == IF \A k \in 1..Len(all) : ok(k) THEN Len(all)
           ELSE (CHOOSE k \in 1..Len(all) : ~ok(k) /\ \A j \in 1..(k - 1) : ok(j)) - 1
  IN [v |-> SubSeq(all, 1, n), cnt |-> n, max_idx |-> max_idx]

\* what one call leaves in *pvd: the accepted vertices (by the point they
\* come from) and cnt; max_idx is kept with it
update_line_data(line, max_idx) ==
  LET v == line_bwd(line, max_idx, line_fwd(line, max_idx, 0, << >>))
  IN [v |-> v, cnt |-> Len(v), max_idx |-> max_idx]

\* the lead rule with the margin added instead of taken off
path_distance_marginAdded(lead, max_distance) ==
  IF lead.status
  THEN LET lead_d == lead.dRel * 2
       IN Clamp(lead_d + Min((lead_d * 35) \div 100, 10 * 100), 0, max_distance)
  ELSE max_distance

\* if (lead_one.getStatus()) { lead_d = dRel * 2.;
\*   max_distance = clamp(lead_d - fmin(lead_d * 0.35, 10.), 0, max_distance); }
path_distance(lead, max_distance) ==
  IF lead.status
  THEN LET lead_d == lead.dRel * 2
       IN Clamp(lead_d - Min((lead_d * 35) \div 100, 10 * 100), 0, max_distance)
  ELSE max_distance

\* update_model(s, model) with lead = radarState.leadOne; the result holds
\* what the call computed and left in the scene
update_model(model, lead) ==
  LET max_distance == Clamp(model.position.x[TRAJECTORY_SIZE],
                            MIN_DRAW_DISTANCE * 100, MAX_DRAW_DISTANCE * 100)
      lane_idx == get_path_length_idx(model.lane_lines[1].x, max_distance)
      track_distance == path_distance(lead, max_distance)
      track_idx == get_path_length_idx(model.position.x, track_distance)
  IN [done |-> TRUE, model |-> model, lead |-> lead,
      max_distance |-> max_distance,
      lane_line_vertices |-> [k \in 1..Len(model.lane_lines) |->
                                update_line_data(model.lane_lines[k], lane_idx)],
      road_edge_vertices |-> [k \in 1..Len(model.road_edges) |->
                                update_line_data(model.road_edges[k], lane_idx)],
      track_distance |-> track_distance,
      track_vertices |-> update_line_data(model.position, track_idx)]

\* forward samples (cm): at rest, ahead, past the draw range; in any order
XValues ==
  {0, 2000, 12000}

\* leadOne.dRel (cm): behind, close, 20 m, far
LeadDistances ==
  {-500, 500, 2000, 6000}

Leads ==
  {[status |-> FALSE, dRel |-> 0]} \cup {[status |-> TRUE, dRel |-> d] : d \in LeadDistances}

\* the lines of one modelV2 sample: the position, and lane lines and road
\* edges on a fixed grid of forward samples; the clip test's outcomes are
\* any, here the same for the lines of a sample
ModelSamples ==
  {[position |-> [x |-> px, left |-> l, right |-> r],
    lane_lines |-> [k \in 1..4 |-> [x |-> [i \in 1..TRAJECTORY_SIZE |-> (i - 1) * g],
                                     left |-> l, right |-> r]],
    road_edges |-> [k \in 1..2 |-> [x |-> [i \in 1..TRAJECTORY_SIZE |-> (i - 1) * g],
                                     left |-> l, right |-> r]]] :
     px \in [1..TRAJECTORY_SIZE -> XValues], g \in {1000, 6000},
     l \in [1..TRAJECTORY_SIZE -> BOOLEAN], r \in [1..TRAJECTORY_SIZE -> BOOLEAN]}

\* a modelV2 sample and the lead of the latest radarState are at hand
InitPath ==
  /\ InitUI
  /\ geom \in {[done |-> FALSE, model |-> m, lead |-> ld] : m \in ModelSamples, ld \in Leads}

\* if (sm.updated("modelV2") && s->vg) update_model(s, sm["modelV2"].getModelV2())
NextPath ==
  /\ ~geom.done
  /\ geom' = update_model(geom.model, geom.lead)
  /\ UNCHANGED <<sm, scene, status, ui_awake, status_started_prev, started_prev,
                 awake, awake_timeout, old_key, last_brightness, brightness_calls,
                 display_power, emitted, wake, tasks, hw_brightness, polled>>

SpecPath ==
  InitPath /\ [][NextPath]_vars

(* --------------------------- SubMaster --------------------------------- *)
\* sm->update(0): the frame counter advances and the topics of in.updated hold
\* a new sample.  deviceState.started is read on every tick, so its latest
\* sample is kept; the other samples are read only on the tick that delivers
\* them (in), and controlsState is kept for that tick.
update_sockets(s, in) ==
  [frame |-> s.frame + 1,
   rcv_frame |-> IF "pandaStates" \in in.updated THEN s.frame + 1 ELSE s.rcv_frame,
   updated |-> in.updated,
   started |-> IF "deviceState" \in in.updated THEN in.deviceState ELSE s.started,
   controlsState |-> IF "controlsState" \in in.updated THEN in.controlsState
                     ELSE NoControlsState]

(* --------------------------- update_state ------------------------------ *)
\* AnyIgnition that reads the first entry only
AnyIgnition_firstOnly(ps) ==
  ps[1].ignitionLine \/ ps[1].ignitionCan

\* scene.ignition |= ignitionLine || ignitionCan over every entry
AnyIgnition(ps) ==
  \E i \in 1..Len(ps) : ps[i].ignitionLine \/ ps[i].ignitionCan

\* if (sm.updated("liveCalibration")) ...
UpdateCalibration(sc, s) ==
  IF "liveCalibration" \in s.updated
  THEN [sc EXCEPT !.world_objects_visible = TRUE]
  ELSE sc

\* UpdatePanda whose staleness rule also drops the ignition
UpdatePanda_staleClearsIgnition(sc, s, ps) ==
  IF "pandaStates" \in s.updated
  THEN IF Len(ps) > 0
       THEN IF ps[1].pandaType # "UNKNOWN"
            THEN [sc EXCEPT !.pandaType = ps[1].pandaType, !.ignition = AnyIgnition(ps)]
            ELSE [sc EXCEPT !.pandaType = ps[1].pandaType]
       ELSE sc
  ELSE IF s.frame - s.rcv_frame > 5 * UI_FREQ
       THEN [sc EXCEPT !.pandaType = "UNKNOWN", !.ignition = FALSE]
       ELSE sc

\* UpdatePanda with the staleness test one tick early (>= for >)
UpdatePanda_offByOne(sc, s, ps) ==
  IF "pandaStates" \in s.updated
  THEN IF Len(ps) > 0
       THEN IF ps[1].pandaType # "UNKNOWN"
            THEN [sc EXCEPT !.pandaType = ps[1].pandaType, !.ignition = AnyIgnition(ps)]
            ELSE [sc EXCEPT !.pandaType = ps[1].pandaType]
       ELSE sc
  ELSE IF s.frame - s.rcv_frame >= 5 * UI_FREQ
       THEN [sc EXCEPT !.pandaType = "UNKNOWN"]
       ELSE sc

\* if (sm.updated("pandaStates")) ... else if (frame - rcv_frame > 5*UI_FREQ) ...
UpdatePanda(sc, s, ps) ==
  IF "pandaStates" \in s.updated
  THEN IF Len(ps) > 0
       THEN IF ps[1].pandaType # "UNKNOWN"
            THEN [sc EXCEPT !.pandaType = ps[1].pandaType, !.ignition = AnyIgnition(ps)]
            ELSE [sc EXCEPT !.pandaType = ps[1].pandaType]
       ELSE sc
  ELSE IF s.frame - s.rcv_frame > 5 * UI_FREQ
       THEN [sc EXCEPT !.pandaType = "UNKNOWN"]
       ELSE sc

\* scene.started = deviceState.started [&& scene.ignition]
UpdateStarted(sc, s) ==
  IF sc.IsOpenpilotViewEnabled
  THEN [sc EXCEPT !.started = s.started]
  ELSE [sc EXCEPT !.started = s.started /\ sc.ignition]

\* if (scene.started && sm.updated("controlsState")) ...
UpdateControls(sc, s) ==
  IF sc.started /\ "controlsState" \in s.updated
  THEN [sc EXCEPT !.controls_state = s.controlsState]
  ELSE sc

\* if (sm.updated("carState")) ...
UpdateCar(sc, s, car) ==
  IF "carState" \in s.updated
  THEN [sc EXCEPT !.car_state = car, !.scr_awake = car.cruiseSwState]
  ELSE sc

\* if (sm.updated("gpsLocationExternal")) ...  if (sm.updated("deviceState")) ...
UpdateLocation(sc, s, in) ==
  [sc EXCEPT !.gpsLocationExternal = IF "gpsLocationExternal" \in s.updated
                                     THEN in.gpsLocationExternal ELSE @,
             !.deviceState = IF "deviceState" \in s.updated
                             THEN in.deviceState ELSE @]

\* if (sm.updated("liveNaviData")) ... liveParameters ... lateralPlan
UpdateNavi(sc, s, in) ==
  LET sc1 == IF "liveNaviData" \in s.updated
             THEN [sc EXCEPT !.liveNaviData = in.liveNaviData,
                             !.scr_map_is_running = in.liveNaviData.mapEnable]
             ELSE sc
  IN [sc1 EXCEPT !.liveParameters = IF "liveParameters" \in s.updated
                                    THEN in.liveParameters ELSE @,
                 !.lateralPlan = IF "lateralPlan" \in s.updated
                                 THEN in.lateralPlan ELSE @]

\* s is the SubMaster after the poll, in the samples it delivered
update_state(sc, s, in) ==
  UpdateNavi(
    UpdateCar(
      UpdateControls(
        UpdateLocation(
          UpdateStarted(
            UpdatePanda(UpdateCalibration(sc, s), s, in.pandaStates), s),
          s, in),
        s),
      s, in.carState),
    s, in)

(* --------------------------- update_status ----------------------------- *)
\* AlertToStatus with the two alert severities exchanged
AlertToStatus_swapped(cs) ==
  IF cs.alertStatus = "USER_PROMPT" THEN "STATUS_ALERT"
  ELSE IF cs.alertStatus = "CRITICAL" THEN "STATUS_WARNING"
  ELSE IF cs.enabled THEN "STATUS_ENGAGED" ELSE "STATUS_DISENGAGED"

\* the status chosen from a fresh controlsState sample
AlertToStatus(cs) ==
  IF cs.alertStatus = "USER_PROMPT" THEN "STATUS_WARNING"
  ELSE IF cs.alertStatus = "CRITICAL" THEN "STATUS_ALERT"
  ELSE IF cs.enabled THEN "STATUS_ENGAGED" ELSE "STATUS_DISENGAGED"

\* update_status that handles the transition before the controlsState sample
update_status_edgeFirst(u, s) ==
  LET edge == u.scene.started # u.started_prev
      st1 == IF edge /\ u.scene.started THEN "STATUS_DISENGAGED" ELSE u.status
  IN [scene |-> IF edge THEN [u.scene EXCEPT !.world_objects_visible = FALSE]
                ELSE u.scene,
      status |-> IF u.scene.started /\ "controlsState" \in s.updated
                 THEN AlertToStatus(s.controlsState)
                 ELSE st1,
      started_prev |-> u.scene.started]

\* u = [scene, status, started_prev]; returns the same record after update_status
update_status(u, s) ==
  LET st1 == IF u.scene.started /\ "controlsState" \in s.updated
             THEN AlertToStatus(s.controlsState)
             ELSE u.status
      edge == u.scene.started # u.started_prev
  IN [scene |-> IF edge THEN [u.scene EXCEPT !.world_objects_visible = FALSE]
                ELSE u.scene,
      status |-> IF edge /\ u.scene.started THEN "STATUS_DISENGAGED" ELSE st1,
      started_prev |-> u.scene.started]

(* -------------------------- QUIState::update --------------------------- *)
\* OffroadTransition without the first-frame emission
OffroadTransition_noFirstFrame(sc, s, prev) ==
  IF sc.started # prev
  THEN << [sig |-> "offroadTransition", arg |-> ~sc.started] >>
  ELSE << >>

\* the offroadTransition emission of QUIState::update
OffroadTransition(sc, s, prev) ==
  IF sc.started # prev \/ s.frame = 1
  THEN << [sig |-> "offroadTransition", arg |-> ~sc.started] >>
  ELSE << >>

\* One timer tick; Inputs is what the sockets can deliver on it.
QUIState_update(Inputs, lastFrame) ==
  /\ sm.frame < lastFrame
  /\ \E in \in Inputs :
       LET s1 == update_sockets(sm, in)
           sc1 == update_state(scene, s1, in)
           u == update_status([scene |-> sc1, status |-> status,
                               started_prev |-> status_started_prev], s1)
       IN /\ sm' = s1
          /\ scene' = u.scene
          /\ status' = u.status
          /\ status_started_prev' = u.started_prev
          /\ emitted' = OffroadTransition(u.scene, s1, started_prev)
          /\ started_prev' = IF u.scene.started # started_prev \/ s1.frame = 1
                             THEN u.scene.started ELSE started_prev
  /\ UNCHANGED <<ui_awake, awake, awake_timeout, old_key, last_brightness,
                 brightness_calls, display_power, wake, tasks, hw_brightness,
                 geom>>

\* ui_update_params: IsOpenpilotViewEnabled is re-read from Params
ui_update_params ==
  /\ \E v \in BOOLEAN :
       /\ v # scene.IsOpenpilotViewEnabled
       /\ scene' = [scene EXCEPT !.IsOpenpilotViewEnabled = v]
  /\ UNCHANGED <<sm, status, ui_awake, status_started_prev, started_prev, awake,
                 awake_timeout, old_key, last_brightness,
                 brightness_calls, display_power, emitted, wake, tasks,
                 hw_brightness, polled, geom>>

(* ------------------- the status classifier's ticks --------------------- *)
\* deviceState, controlsState and liveCalibration publish; no panda is
\* attached, so the scene starts only in the IsOpenpilotViewEnabled mode.
StatusControls ==
  [alertStatus : AlertStatus, enabled : BOOLEAN, alertSize : {"SMALL"}]

StatusInputs ==
  {[NoInput EXCEPT !.updated = (IF d = 0 THEN {} ELSE {"deviceState"})
                                 \cup (IF c = NoControlsState THEN {} ELSE {"controlsState"})
                                 \cup (IF l THEN {"liveCalibration"} ELSE {}),
                   !.deviceState = (d = 2),
                   !.controlsState = c] :
     d \in 0..2, c \in StatusControls \cup {NoControlsState}, l \in BOOLEAN}

NextUI ==
  \/ QUIState_update(StatusInputs, MaxFrame) /\ UNCHANGED polled
  \/ ui_update_params

SpecUI ==
  Init /\ [][NextUI]_vars

(* --------------------- the hardware link's ticks ----------------------- *)
\* pandaStates and deviceState publish.
PandaInputs ==
  {[NoInput EXCEPT !.updated = (IF d = 0 THEN {} ELSE {"deviceState"}) \cup p[1],
                   !.deviceState = (d = 2),
                   !.pandaStates = p[2]] :
     d \in 0..2,
     p \in {<<{}, << >> >>} \cup ({{"pandaStates"}} \X PandaLists)}

NextPanda ==
  QUIState_update(PandaInputs, 5 * UI_FREQ + MaxFrame) /\ UNCHANGED polled

SpecPanda ==
  Init /\ [][NextPanda]_vars

(* ------------------- ticks that keep their samples --------------------- *)
\* One timer tick on one of Inputs; polled keeps what the tick delivered.
Poll(Inputs, lastFrame) ==
  \E in \in Inputs :
    /\ QUIState_update({in}, lastFrame)
    /\ polled' = in

\* the two samples a topic publishes here
TopicSamples ==
  {[NoInput EXCEPT !.deviceState = v,
                   !.controlsState = [alertStatus |-> IF v THEN "USER_PROMPT" ELSE "CRITICAL",
                                      enabled |-> v, alertSize |-> "SMALL"],
                   !.carState = [cruiseSwState |-> IF v THEN 1 ELSE 0, vEgo |-> 1],
                   !.gpsLocationExternal = IF v THEN 1 ELSE 2,
                   !.liveNaviData = [mapEnable |-> v],
                   !.liveParameters = IF v THEN 1 ELSE 2,
                   !.lateralPlan = IF v THEN 1 ELSE 2] : v \in BOOLEAN}

\* the topics update_state copies into the scene
SceneTopics ==
  {"gpsLocationExternal", "deviceState", "controlsState", "carState",
   "liveNaviData", "liveParameters", "lateralPlan"}

\* a tick delivers nothing, one topic, or all of them
TopicInputs ==
  {[m EXCEPT !.updated = u] :
     m \in TopicSamples, u \in {{}, SceneTopics} \cup {{tp} : tp \in SceneTopics}}

NextTopics ==
  \/ Poll(TopicInputs, MaxFrame)
  \/ ui_update_params

SpecTopics ==
  Init /\ [][NextTopics]_vars

\* pandaStates lists of up to two entries
PandaChains ==
  {<< >>} \cup {<<p>> : p \in PandaStates} \cup {<<p, q>> : p, q \in PandaStates}

IgnitionInputs ==
  {NoInput} \cup
  {[NoInput EXCEPT !.updated = {"pandaStates"}, !.pandaStates = ps] : ps \in PandaChains}

NextIgnition ==
  Poll(IgnitionInputs, MaxFrame)

SpecIgnition ==
  Init /\ [][NextIgnition]_vars

(* ------------------------------ Device --------------------------------- *)
\* setAwake with the reset that forgets to re-arm the countdown
setAwake_noRearm(d, sc, on, reset) ==
  LET d1 == IF on # d.awake
            THEN IF sc.ignition \/ sc.scr_autoScreenOff = 0
                 THEN [d EXCEPT !.awake = on,
                                !.display_power = IF on THEN "on" ELSE "off",
                                !.emitted = @ \o << [sig |-> "set_display_power", arg |-> on],
                                                   [sig |-> "displayPowerChanged", arg |-> on] >>]
                 ELSE [d EXCEPT !.awake = on]
            ELSE d
  IN IF reset
     THEN [d1 EXCEPT !.nTime = sc.scr_autoScreenOff * 60 * UI_FREQ]
     ELSE d1

\* setAwake without the ignition / autoScreenOff test around the power call
setAwake_noGuard(d, sc, on, reset) ==
  LET d1 == IF on # d.awake
            THEN [d EXCEPT !.awake = on,
                           !.display_power = IF on THEN "on" ELSE "off",
                           !.emitted = @ \o << [sig |-> "set_display_power", arg |-> on],
                                              [sig |-> "displayPowerChanged", arg |-> on] >>]
            ELSE d
  IN IF reset
     THEN [d1 EXCEPT !.awake_timeout = 30 * UI_FREQ,
                     !.nTime = sc.scr_autoScreenOff * 60 * UI_FREQ]
     ELSE d1

\* d = [awake, awake_timeout, old_key, nTime, last_brightness,
\* brightness_calls, display_power, emitted]: the members of Device,
\* scene.scr.nTime, the display hardware and the trace of the running handler.
\* sc is QUIState::ui_state.scene.
setAwake(d, sc, on, reset) ==
  LET d1 == IF on # d.awake
            THEN IF sc.ignition \/ sc.scr_autoScreenOff = 0
                 THEN [d EXCEPT !.awake = on,
                                !.display_power = IF on THEN "on" ELSE "off",
                                !.emitted = @ \o << [sig |-> "set_display_power", arg |-> on],
                                                   [sig |-> "displayPowerChanged", arg |-> on] >>]
                 ELSE [d EXCEPT !.awake = on]
            ELSE d
  IN IF reset
     THEN [d1 EXCEPT !.awake_timeout = 30 * UI_FREQ,
                     !.nTime = sc.scr_autoScreenOff * 60 * UI_FREQ]
     ELSE d1

\* the first if-chain of ScreenAwake: does it re-arm awake_timeout?
Rearms(d, sc) ==
  \/ d.nTime > 0
  \/ sc.scr_brightness_off # 0
  \/ sc.ignition /\ sc.car_state.vEgo < 1

\* int cur_key = scene.scr.awake (+1 while an alert is drawn)
CurKey(sc) ==
  sc.scr_awake
  + (IF sc.started /\ sc.controls_state.alertSize # "NONE" THEN 1 ELSE 0)

\* ScreenAwake whose key change wakes without resetting the countdown
ScreenAwake_keyNoReset(d, sc) ==
  LET d1 == IF d.nTime > 0
            THEN [d EXCEPT !.awake_timeout = 30 * UI_FREQ, !.nTime = @ - 1]
            ELSE IF sc.scr_brightness_off # 0 \/ (sc.ignition /\ sc.car_state.vEgo < 1)
                 THEN [d EXCEPT !.awake_timeout = 30 * UI_FREQ]
                 ELSE d
      cur_key == sc.scr_awake
                 + (IF sc.started /\ sc.controls_state.alertSize # "NONE" THEN 1 ELSE 0)
  IN IF cur_key # d1.old_key
     THEN LET d2 == [d1 EXCEPT !.old_key = cur_key]
          IN IF cur_key # 0 THEN setAwake(d2, sc, TRUE, FALSE) ELSE d2
     ELSE d1

ScreenAwake(d, sc) ==
  LET d1 == IF d.nTime > 0
            THEN [d EXCEPT !.awake_timeout = 30 * UI_FREQ, !.nTime = @ - 1]
            ELSE IF Rearms(d, sc)
                 THEN [d EXCEPT !.awake_timeout = 30 * UI_FREQ]
                 ELSE d
      cur_key == CurKey(sc)
  IN IF cur_key # d1.old_key
     THEN LET d2 == [d1 EXCEPT !.old_key = cur_key]
          IN IF cur_key # 0 THEN setAwake(d2, sc, TRUE, TRUE) ELSE d2
     ELSE d1

\* the wake decision before tap detection:
\* (!autoScreenOff || !ignition) and then should_wake = started || ignition
PrimaryWake(sc) ==
  /\ sc.scr_autoScreenOff = 0 \/ ~sc.ignition
  /\ sc.started \/ sc.ignition

\* bool should_wake of updateWakefulness.  tap is the outcome of
\* accel_trigger && gyro_trigger (float arithmetic on the sensor samples),
\* evaluated only when the first decision is false.
ShouldWake(sc, tap) ==
  IF sc.scr_autoScreenOff = 0 \/ ~sc.ignition
  THEN IF sc.started \/ sc.ignition THEN TRUE ELSE tap
  ELSE FALSE

\* updateWakefulness whose countdown is not floored at 0
updateWakefulness_noFloor(d, sc, tap) ==
  LET d1 == [d EXCEPT !.awake_timeout = d.awake_timeout - 1]
      d2 == ScreenAwake(d1, sc)
  IN setAwake(d2, sc, d2.awake_timeout # 0, ShouldWake(sc, tap))

updateWakefulness(d, sc, tap) ==
  LET d1 == [d EXCEPT !.awake_timeout = Max(d.awake_timeout - 1, 0)]
      d2 == ScreenAwake(d1, sc)
  IN setAwake(d2, sc, d2.awake_timeout # 0, ShouldWake(sc, tap))

\* updateBrightness that dispatches on every run
updateBrightness_alwaysDispatch(d, sc, fb) ==
  LET brightness ==
        IF ~d.awake THEN 0
        ELSE IF sc.started /\ d.nTime <= 0 /\ sc.scr_autoScreenOff # 0
             THEN (sc.scr_brightness_off * fb) \div 100
             ELSE fb
  IN [d EXCEPT !.last_brightness = brightness,
               !.brightness_calls = << brightness >>]

\* The tail of updateBrightness.  fb is what brightness_filter.update returned
\* (a float filter of the light sensor, truncated to int); the percentage is
\* applied with the truncation of the int conversion.
updateBrightness(d, sc, fb) ==
  LET brightness ==
        IF ~d.awake THEN 0
        ELSE IF sc.started /\ d.nTime <= 0 /\ sc.scr_autoScreenOff # 0
             THEN (sc.scr_brightness_off * fb) \div 100
             ELSE fb
  IN [d EXCEPT !.last_brightness = brightness,
               !.brightness_calls = IF brightness # d.last_brightness
                                    THEN << brightness >> ELSE << >>]

\* std::thread{Hardware::set_brightness, brightness}.detach(): one more thread
\* that will carry its value to the hardware at some later time
detach(ts, calls) ==
  IF calls = << >> THEN ts ELSE ts (+) SetToBag({calls[1]})

\* one detached thread runs Hardware::set_brightness with its value
set_brightness ==
  /\ \E v \in BagToSet(tasks) :
       /\ hw_brightness' = << v >>
       /\ tasks' = tasks (-) SetToBag({v})
  /\ UNCHANGED <<sm, scene, status, ui_awake, status_started_prev, started_prev,
                 awake, awake_timeout, old_key, last_brightness, brightness_calls,
                 display_power, emitted, wake, polled, geom>>

\* The UIState a uiUpdate signal hands to Device::update, as far as the
\* Device reads it: the scene as some QUIState::update left it.  The fields
\* take any values (speed is read only with ignition, the alert only while
\* started).
DeviceScenes ==
  {[started |-> st, ignition |-> ig, scr_awake |-> k, alertSize |-> al, vEgo |-> v] :
     st \in BOOLEAN, ig \in BOOLEAN, k \in 0..MaxCruiseSw,
     al \in AlertSize, v \in 0..1}

\* emit uiUpdate(ui_state): the scene with the fields of x
uiUpdate(sc, x) ==
  [sc EXCEPT !.started = x.started,
             !.ignition = x.ignition,
             !.scr_awake = x.scr_awake,
             !.car_state = [cruiseSwState |-> x.scr_awake, vEgo |-> x.vEgo],
             !.controls_state = [@ EXCEPT !.alertSize = x.alertSize]]

\* Device::update(const UIState &s), the slot of uiUpdate; s carries the scene
\* fields x.  tap is the outcome of this run's tap detection, fb of this
\* run's brightness filter.
Device_update(x, tap, fb) ==
  \E sc \in {uiUpdate(scene, x)} :
  \E d0 \in {[awake |-> awake, awake_timeout |-> awake_timeout,
             old_key |-> old_key, nTime |-> sc.scr_nTime,
             last_brightness |-> last_brightness, brightness_calls |-> << >>,
             display_power |-> display_power, emitted |-> << >>]} :
  \E d \in {updateWakefulness(updateBrightness(d0, sc, fb), sc, tap)} :
     /\ awake' = d.awake
     /\ last_brightness' = d.last_brightness
     /\ brightness_calls' = d.brightness_calls
     /\ awake_timeout' = d.awake_timeout
     /\ old_key' = d.old_key
     /\ scene' = [sc EXCEPT !.scr_nTime = d.nTime]
     /\ display_power' = d.display_power
     /\ emitted' = d.emitted
     /\ ui_awake' = d.awake
     /\ wake' = [should_wake |-> ShouldWake(sc, tap),
                 primary |-> PrimaryWake(sc),
                 rearmed |-> Rearms(d0, sc),
                 key_wake |-> CurKey(sc) # old_key /\ CurKey(sc) # 0]
     /\ tasks' = detach(tasks, d.brightness_calls)
     /\ UNCHANGED <<sm, status, status_started_prev, started_prev,
                    hw_brightness, polled, geom>>

\* scene.scr.autoScreenOff (minutes, 0 = feature off) and
\* scene.scr.brightness_off (percent, 0 = none) are settings; the settings
\* screen writes them between two runs of Device::update.
AutoScreenOffValues ==
  {0, 1}

BrightnessOffValues ==
  {0, 30}

ScreenSettings ==
  \E a \in AutoScreenOffValues, b \in BrightnessOffValues :
    /\ <<a, b>> # <<scene.scr_autoScreenOff, scene.scr_brightness_off>>
    /\ scene' = [scene EXCEPT !.scr_autoScreenOff = a, !.scr_brightness_off = b]
    /\ UNCHANGED <<sm, status, ui_awake, status_started_prev, started_prev, awake,
                   awake_timeout, old_key, last_brightness, brightness_calls,
                   display_power, emitted, wake, tasks, hw_brightness, polled,
                   geom>>

\* the brightness filter rests at its initial value
FilterOutputs ==
  {BACKLIGHT_OFFROAD}

\* Here a detached thread has run before the next tick or settings change
\* (SpecBrightness explores the threads that run late).
NextDevice ==
  \/ \E x \in DeviceScenes, tap \in BOOLEAN, fb \in FilterOutputs :
       \* a field the run does not read keeps its value
       /\ (~x.ignition => x.vEgo = scene.car_state.vEgo)
       /\ (~x.started => x.alertSize = scene.controls_state.alertSize)
       /\ (tap => ~x.started /\ ~x.ignition)
       /\ tasks = EmptyBag
       /\ Device_update(x, tap, fb)
  \/ tasks = EmptyBag /\ ScreenSettings
  \/ set_brightness

SpecDevice ==
  Init /\ [][NextDevice]_vars

(* ------------------- the detached brightness threads ------------------- *)
\* detached threads alive at once
MaxTasks ==
  2

\* The scenes of a parked and of a driving car, no key and no alert.
BrightnessScenes ==
  {x \in DeviceScenes : x.scr_awake = 0 /\ x.alertSize = "NONE" /\ x.vEgo = 0
                        /\ x.started = x.ignition}

\* Device::update, the settings screen and the detached threads in any order.
NextBrightness ==
  \/ \E x \in BrightnessScenes, fb \in FilterOutputs :
       /\ BagCardinality(tasks) < MaxTasks
       /\ Device_update(x, FALSE, fb)
  \/ ScreenSettings
  \/ set_brightness

SpecBrightness ==
  Init /\ [][NextBrightness]_vars

(* ===================== properties of QUIState::update ================== *)
\* a step that is one run of QUIState::update
TimerTick ==
  sm'.frame = sm.frame + 1

\* C3: the tick on which scene.started rises ends with status DISENGAGED and
\* world_objects_visible false, whatever controlsState or liveCalibration
\* delivered on it; world_objects_visible turns true only on a tick with a
\* liveCalibration sample and no change of started.
C3_StartedResets ==
  [][TimerTick =>
       /\ (~scene.started /\ scene'.started =>
             status' = "STATUS_DISENGAGED" /\ ~scene'.world_objects_visible)
       /\ (~scene.world_objects_visible /\ scene'.world_objects_visible =>
             "liveCalibration" \in sm'.updated /\ scene'.started = scene.started)]_vars

\* C3 witness: started with a critical alert and a calibration sample fresh on
\* the same tick, and yet disengaged and invisible: the rising tick.
C3_Witness ==
  /\ scene.started
  /\ {"controlsState", "liveCalibration"} \subseteq sm.updated
  /\ sm.controlsState.alertStatus = "CRITICAL"
  /\ status = "STATUS_DISENGAGED"
  /\ ~scene.world_objects_visible
  /\ sm.frame > 1

\* C4: on a tick without a pandaStates sample, scene.pandaType is UNKNOWN
\* after the tick if frame - rcv_frame > 5*UI_FREQ, and unchanged otherwise.
C4_StalePanda ==
  [][TimerTick /\ "pandaStates" \notin sm'.updated =>
       IF sm'.frame - sm'.rcv_frame > 5 * UI_FREQ
       THEN scene'.pandaType = "UNKNOWN"
       ELSE scene'.pandaType = scene.pandaType]_vars

\* C4 witness: one sample on the first tick (a panda of known type: it set the
\* ignition), then silence; the first tick past the limit reads UNKNOWN.
C4_Witness ==
  /\ sm.rcv_frame = 1
  /\ sm.frame = 5 * UI_FREQ + 2
  /\ scene.ignition
  /\ scene.pandaType = "UNKNOWN"

\* C9: a tick emits offroadTransition exactly if scene.started differs from
\* its value after the previous tick or sm.frame = 1; it emits it once, with
\* the negation of scene.started.
C9_OffroadTransition ==
  [][TimerTick =>
       emitted' = (IF scene'.started # scene.started \/ sm'.frame = 1
                   THEN << [sig |-> "offroadTransition", arg |-> ~scene'.started] >>
                   ELSE << >>)]_vars

\* C9 witness: the first tick comes up started, which equals the initial
\* started_prev: the emission is the first frame's.
C9_Witness ==
  /\ sm.frame = 1
  /\ scene.started
  /\ emitted = << [sig |-> "offroadTransition", arg |-> FALSE] >>

\* C10: a tick sets status to DISENGAGED on the rising edge of started;
\* otherwise, if started and controlsState is fresh, to WARNING for
\* USER_PROMPT, ALERT for CRITICAL, else ENGAGED if enabled, else DISENGAGED;
\* on every other tick (the falling edge included) status is unchanged.
C10_StatusMapping ==
  [][TimerTick =>
       status' = (IF ~scene.started /\ scene'.started THEN "STATUS_DISENGAGED"
                  ELSE IF scene'.started /\ "controlsState" \in sm'.updated
                  THEN CASE sm'.controlsState.alertStatus = "USER_PROMPT" -> "STATUS_WARNING"
                         [] sm'.controlsState.alertStatus = "CRITICAL" -> "STATUS_ALERT"
                         [] OTHER -> IF sm'.controlsState.enabled THEN "STATUS_ENGAGED"
                                     ELSE "STATUS_DISENGAGED"
                  ELSE status)]_vars

\* C10 witness: the falling tick delivered a controlsState sample that maps
\* to another status, and the alert status of the drive is kept.
C10_Witness ==
  /\ ~scene.started
  /\ status = "STATUS_ALERT"
  /\ "controlsState" \in sm.updated
  /\ sm.controlsState.alertStatus = "USER_PROMPT"

\* C14: on every tick, each of the seven topics that is updated leaves its
\* sample in its scene field (carState also its cruise switch state in
\* scr.awake, liveNaviData its mapEnable in scr.map_is_running), and each
\* that is not updated leaves the field as it was; scene.started plays no
\* part.
C14_VerbatimTopics ==
  [][TimerTick =>
       LET fresh(tp) == tp \in sm'.updated
       IN /\ scene'.gpsLocationExternal =
               (IF fresh("gpsLocationExternal") THEN polled'.gpsLocationExternal
                ELSE scene.gpsLocationExternal)
          /\ scene'.deviceState =
               (IF fresh("deviceState") THEN polled'.deviceState ELSE scene.deviceState)
          /\ scene'.controls_state =
               (IF fresh("controlsState") THEN polled'.controlsState
                ELSE scene.controls_state)
          /\ scene'.car_state =
               (IF fresh("carState") THEN polled'.carState ELSE scene.car_state)
          /\ scene'.scr_awake =
               (IF fresh("carState") THEN polled'.carState.cruiseSwState
                ELSE scene.scr_awake)
          /\ scene'.liveNaviData =
               (IF fresh("liveNaviData") THEN polled'.liveNaviData ELSE scene.liveNaviData)
          /\ scene'.scr_map_is_running =
               (IF fresh("liveNaviData") THEN polled'.liveNaviData.mapEnable
                ELSE scene.scr_map_is_running)
          /\ scene'.liveParameters =
               (IF fresh("liveParameters") THEN polled'.liveParameters
                ELSE scene.liveParameters)
          /\ scene'.lateralPlan =
               (IF fresh("lateralPlan") THEN polled'.lateralPlan
                ELSE scene.lateralPlan)]_vars

\* C15: a tick with a pandaStates sample: a non-empty list sets pandaType to
\* its first entry's type and, if that is not UNKNOWN, ignition to the OR of
\* ignitionLine or ignitionCan over all entries; an empty list changes
\* neither, a first entry of type UNKNOWN leaves ignition.
C15_PandaIgnition ==
  [][TimerTick /\ "pandaStates" \in sm'.updated =>
       LET ps == polled'.pandaStates
       IN IF ps = << >>
          THEN scene'.pandaType = scene.pandaType /\ scene'.ignition = scene.ignition
          ELSE /\ scene'.pandaType = ps[1].pandaType
               /\ scene'.ignition =
                    (IF ps[1].pandaType = "UNKNOWN" THEN scene.ignition
                     ELSE \E i \in 1..Len(ps) : ps[i].ignitionLine \/ ps[i].ignitionCan)]_vars

\* C15 witness: only the second entry of the list reports ignition, by CAN,
\* and the scene has it.
C15_Witness ==
  /\ "pandaStates" \in sm.updated
  /\ Len(polled.pandaStates) = 2
  /\ polled.pandaStates[1].pandaType = "DOS"
  /\ ~polled.pandaStates[1].ignitionLine /\ ~polled.pandaStates[1].ignitionCan
  /\ ~polled.pandaStates[2].ignitionLine /\ polled.pandaStates[2].ignitionCan
  /\ scene.ignition
  /\ scene.pandaType = "DOS"

\* C20: a tick without a pandaStates sample leaves scene.ignition (also the
\* tick on which staleness sets pandaType to UNKNOWN); with ignition true
\* and deviceState reporting started, such a tick ends started.
C20_StaleKeepsIgnition ==
  [][TimerTick /\ "pandaStates" \notin sm'.updated =>
       /\ scene'.ignition = scene.ignition
       /\ (scene.ignition /\ sm'.started => scene'.started)]_vars

\* C20 witness: the link has been silent past the limit, its type reads
\* UNKNOWN, and the scene is still started on the ignition it last reported.
C20_Witness ==
  /\ sm.frame - sm.rcv_frame > 5 * UI_FREQ + 1
  /\ scene.pandaType = "UNKNOWN"
  /\ scene.ignition
  /\ scene.started
  /\ ~scene.IsOpenpilotViewEnabled

(* ====================== properties of update_model ===================== *)
\* the calls update_model made: get_path_length_idx as <<line_x, limit,
\* result>>, update_line_data as <<line, what it left>>
IdxCalls ==
  {<<geom.model.lane_lines[1].x, geom.max_distance, geom.lane_line_vertices[1].max_idx>>,
   <<geom.model.position.x, geom.track_distance, geom.track_vertices.max_idx>>}

LineCalls ==
  {<<geom.model.lane_lines[k], geom.lane_line_vertices[k]>> :
     k \in 1..Len(geom.model.lane_lines)}
  \cup {<<geom.model.road_edges[k], geom.road_edge_vertices[k]>> :
          k \in 1..Len(geom.model.road_edges)}
  \cup {<<geom.model.position, geom.track_vertices>>}

\* C16: every update_line_data call of update_model leaves in cnt the number
\* of candidate points (left 0..max_idx, right max_idx..0) that pass the clip
\* test, in scan order and with the failing ones skipped; max_idx is within
\* 0..TRAJECTORY_SIZE-1 and cnt never exceeds the capacity 2*TRAJECTORY_SIZE.
C16_VertexCount ==
  geom.done =>
    \A c \in LineCalls :
      LET line == c[1]
          pvd == c[2]
          passL == {i \in 0..pvd.max_idx : line.left[i + 1]}
          passR == {i \in 0..pvd.max_idx : line.right[i + 1]}
      IN /\ pvd.max_idx \in 0..(TRAJECTORY_SIZE - 1)
         /\ pvd.cnt = Cardinality(passL) + Cardinality(passR)
         /\ pvd.cnt = Len(pvd.v)
         /\ pvd.cnt <= 2 * TRAJECTORY_SIZE
         /\ \A i \in passL : \E k \in 1..Cardinality(passL) :
               pvd.v[k] = [side |-> "left", i |-> i]
         /\ \A i \in passR : \E k \in (Cardinality(passL) + 1)..pvd.cnt :
               pvd.v[k] = [side |-> "right", i |-> i]
         /\ \A k \in 1..(pvd.cnt - 1) :
               pvd.v[k].side = pvd.v[k + 1].side =>
                 IF pvd.v[k].side = "left" THEN pvd.v[k].i < pvd.v[k + 1].i
                 ELSE pvd.v[k].i > pvd.v[k + 1].i

\* C16 witness: the track ribbon runs over every sample, its first left
\* point is refused and later ones are kept.
C16_Witness ==
  /\ geom.done
  /\ geom.track_vertices.max_idx = TRAJECTORY_SIZE - 1
  /\ ~geom.model.position.left[1]
  /\ geom.model.position.left[2]
  /\ \A i \in 1..TRAJECTORY_SIZE : geom.model.position.right[i]
  /\ geom.track_vertices.cnt = 2 * TRAJECTORY_SIZE - 1

\* C17: get_path_length_idx(line, limit) is the largest i in
\* 0..TRAJECTORY_SIZE-1 with x[j] < limit for every j <= i (the scan stops at
\* the first sample at or over the limit), and 0 when there is no such i.
C17_PathLengthIdx ==
  geom.done =>
    \A c \in IdxCalls :
      LET x == c[1]
          limit == c[2]
          ret == c[3]
          allBelow(i) == \A j \in 0..i : x[j + 1] < limit
      IN /\ ret \in 0..(TRAJECTORY_SIZE - 1)
         /\ IF allBelow(0)
            THEN allBelow(ret) /\ (ret = TRAJECTORY_SIZE - 1 \/ ~allBelow(ret + 1))
            ELSE ret = 0

\* C17 witness: the position returns behind the limit after a sample past
\* it: the scan stopped at the first sample over the limit, at index 0.
C17_Witness ==
  /\ geom.done
  /\ geom.model.position.x[1] < geom.track_distance
  /\ geom.model.position.x[2] >= geom.track_distance
  /\ geom.model.position.x[TRAJECTORY_SIZE] < geom.track_distance
  /\ geom.track_vertices.max_idx = 0

\* C18: max_distance is the last forward sample of the position clamped to
\* the draw range; with a lead at distance d the driving path's distance is
\* clamp(2d - min(0.35 * 2d, 10 m), 0, max_distance), within 0..max_distance;
\* without a lead it is max_distance.
C18_LeadShortening ==
  geom.done =>
    LET last == geom.model.position.x[TRAJECTORY_SIZE]
        lo == MIN_DRAW_DISTANCE * 100
        hi == MAX_DRAW_DISTANCE * 100
        d == geom.lead.dRel
        \* in millimetres: 0.35 * 2d = 0.7d, 10 m = 10000 mm
        margin == IF 7 * d <= 10000 THEN 7 * d ELSE 10000
        want == 20 * d - margin
    IN /\ geom.max_distance = (IF last < lo THEN lo ELSE IF last > hi THEN hi ELSE last)
       /\ geom.track_distance \in 0..geom.max_distance
       /\ 10 * geom.track_distance =
            (IF ~geom.lead.status THEN 10 * geom.max_distance
             ELSE IF want < 0 THEN 0
             ELSE IF want > 10 * geom.max_distance THEN 10 * geom.max_distance
             ELSE want)

\* C18 witness: a lead at 20 m under a draw distance of at least 30 m: the
\* driving path is drawn to 30 m.
C18_Witness ==
  /\ geom.done
  /\ geom.lead.status
  /\ geom.lead.dRel = 2000
  /\ geom.max_distance >= 3000
  /\ geom.track_distance = 3000

(* ======================= properties of the Device ====================== *)
\* Under SpecDevice a step that keeps the two settings and is not a detached
\* thread's is a run of Device::update: scene' holds the scene the run read
\* (and scr_nTime as the run left it).
DeviceStep ==
  /\ tasks = EmptyBag
  /\ scene'.scr_autoScreenOff = scene.scr_autoScreenOff
  /\ scene'.scr_brightness_off = scene.scr_brightness_off

IsPowerChanged(e) ==
  e.sig = "displayPowerChanged"

IsPowerCall(e) ==
  e.sig = "set_display_power"

PowerChanged(ev) ==
  SelectSeq(ev, IsPowerChanged)

PowerCalls(ev) ==
  SelectSeq(ev, IsPowerCall)

\* C1: every change of Device.awake emits exactly one displayPowerChanged
\* carrying the new value and commands the display hardware with it, whatever
\* scene.ignition and scene.scr.autoScreenOff are.
C1_EveryEdgeCommandsPower ==
  [][awake' # awake =>
       /\ PowerChanged(emitted') = << [sig |-> "displayPowerChanged", arg |-> awake'] >>
       /\ PowerCalls(emitted') = << [sig |-> "set_display_power", arg |-> awake'] >>
       /\ display_power' = (IF awake' THEN "on" ELSE "off")]_vars

\* C2: one run of Device::update emits displayPowerChanged at most once, and
\* exactly once when it turns the display from not awake to awake.
C2_OneEventPerTick ==
  [][DeviceStep =>
       /\ Len(PowerChanged(emitted')) <= 1
       /\ (~awake /\ awake' => Len(PowerChanged(emitted')) = 1)]_vars

\* C5: when the previous run and this run of Device::update both see
\* (autoScreenOff = 0 or no ignition) and (started or ignition), the display
\* is awake after this run and the countdown stands at 30*UI_FREQ.
C5_AlwaysOnStaysAwake ==
  [][/\ DeviceStep
     /\ wake.primary
     /\ scene'.scr_autoScreenOff = 0 \/ ~scene'.ignition
     /\ scene'.started \/ scene'.ignition
     => awake' /\ awake_timeout' = 30 * UI_FREQ]_vars

\* C5 witness: an always-on run, by the wake decision alone (no re-arming
\* branch, no key), that ends awake with the display commanded on.
C5_Witness ==
  /\ wake.primary
  /\ awake
  /\ awake_timeout = 30 * UI_FREQ
  /\ ~wake.rearmed
  /\ ~wake.key_wake
  /\ display_power = "on"

\* C6: a run in which the composite key differs from the previous run's key
\* ends awake with the countdown at 30*UI_FREQ when the key is non-zero,
\* whatever should_wake and the countdown were; a change to 0 wakes nothing:
\* the display is then awake exactly if the countdown (re-armed or
\* decremented) is not 0.
C6_KeyChangeWakes ==
  [][LET key == scene'.scr_awake
                + (IF scene'.started /\ scene'.controls_state.alertSize # "NONE"
                   THEN 1 ELSE 0)
     IN DeviceStep /\ key # old_key =>
          /\ old_key' = key
          /\ IF key # 0
             THEN awake' /\ awake_timeout' = 30 * UI_FREQ
             ELSE awake' = (scene.scr_nTime > 0
                            \/ scene'.scr_brightness_off # 0
                            \/ (scene'.ignition /\ scene'.car_state.vEgo < 1)
                            \/ awake_timeout > 1)]_vars

\* C6 witness: the key alone woke the display: no wake decision, no re-arming
\* branch.
C6_Witness ==
  /\ wake.key_wake
  /\ ~wake.should_wake
  /\ ~wake.rearmed
  /\ awake
  /\ awake_timeout = 30 * UI_FREQ

\* C7: awake_timeout stays within 0..30*UI_FREQ, and a run with no reset
\* (should_wake false, no re-arming branch, no key wake) leaves it at
\* max(previous - 1, 0).
C7_CountdownRange ==
  [][/\ awake_timeout \in 0..(30 * UI_FREQ)
     /\ awake_timeout' \in 0..(30 * UI_FREQ)
     /\ (DeviceStep /\ ~wake'.should_wake /\ ~wake'.rearmed /\ ~wake'.key_wake =>
           awake_timeout' = (IF awake_timeout >= 1 THEN awake_timeout - 1 ELSE 0))]_vars

\* C7 witness: the countdown ran down to its floor and the display went to
\* sleep through the hardware.
C7_Witness ==
  /\ awake_timeout = 0
  /\ ~awake
  /\ display_power = "off"
  /\ ~wake.should_wake /\ ~wake.rearmed /\ ~wake.key_wake

\* C8: set_display_power(false) is called only with ignition on or
\* autoScreenOff = 0; with ignition off and auto-screen-off enabled a run
\* that puts the display to sleep changes awake and calls nothing.
C8_PowerOffGuarded ==
  [][DeviceStep =>
       /\ (\E i \in 1..Len(emitted') :
             emitted'[i] = [sig |-> "set_display_power", arg |-> FALSE])
          => (scene'.ignition \/ scene'.scr_autoScreenOff = 0)
       /\ (awake /\ ~awake' /\ ~scene'.ignition /\ scene'.scr_autoScreenOff # 0)
          => (emitted' = << >> /\ display_power' = display_power)]_vars

\* C8 witness: asleep with the display still powered: the sleep edge was taken
\* with ignition off and auto-screen-off enabled.
C8_Witness ==
  /\ ~awake
  /\ display_power = "on"
  /\ ~scene.ignition
  /\ scene.scr_autoScreenOff # 0
  /\ emitted = << >>

\* C11: after every run of Device::update that ends with the display not
\* awake, last_brightness (the value updateBrightness computed for the
\* hardware in that run) is 0.
C11_AsleepMeansDark ==
  ~awake => last_brightness = 0

\* C19: a run of Device::update that starts with the display awake and whose
\* wake decision should_wake is true ends with the display awake.
C19_WakeKeepsAwake ==
  [][DeviceStep /\ awake /\ wake'.should_wake => awake']_vars

\* C12: a run of Device::update dispatches Hardware::set_brightness exactly
\* if the brightness it computed differs from last_brightness of the previous
\* run, once and with the computed value; a dispatch never repeats the value
\* of the dispatch before it (which the hardware holds once its thread ran).
C12_DispatchIffChanged ==
  [][DeviceStep =>
       /\ brightness_calls' = (IF last_brightness' # last_brightness
                               THEN << last_brightness' >> ELSE << >>)
       /\ tasks' = (IF last_brightness' # last_brightness
                    THEN SetToBag({last_brightness'}) ELSE EmptyBag)
       /\ (brightness_calls' # << >> => brightness_calls' # hw_brightness)]_vars

\* C12 witness: the hardware holds the value of an earlier dispatch, not 0,
\* and the last run computed the same value again and dispatched nothing.
C12_Witness ==
  /\ hw_brightness = << last_brightness >>
  /\ last_brightness # 0
  /\ brightness_calls = << >>
  /\ tasks = EmptyBag
  /\ awake

\* C13: when no detached thread is left to run, the hardware holds the value
\* of the latest dispatch, which is last_brightness.
C13_LastWriteWins ==
  tasks = EmptyBag /\ hw_brightness # << >> => hw_brightness = << last_brightness >>

=============================================================================
